---- MODULE Spec2Model ----
(***************************************************************************)
(* SpendSense (src/app.py): the duplicate-intent detector                  *)
(* check_purchase_history and the post / decision / savings workflow       *)
(* around it.                                                              *)
(*                                                                         *)
(* Text is a sequence of code points.  A value read from the item_name     *)
(* column is a record [t, s]: t is "str" (TEXT), "bytes" (BLOB) or "null", *)
(* s its characters.  A similarity ratio or a threshold is a pair          *)
(* <<num, den>> with den > 0; the floats of the program are the doubles    *)
(* nearest to these rationals, and for the small denominators used here    *)
(* two of them compare as the rationals do.                                *)
(***************************************************************************)
EXTENDS Integers, Sequences, FiniteSets, TLC

VARIABLES
    users,          \* users table: the set of user ids
    savings,        \* savings table: user_id -> total_saved, NoRow when absent
    groups,         \* groups table: group_id -> owner_id, NoRow when absent
    memberships,    \* memberships table: set of <<user_id, group_id>>
    posts,          \* posts table, rows in rowid (insertion) order
    votes,          \* votes table, rows in rowid order
    notifications,  \* notifications table, rows in rowid order
    next_id,        \* the next fresh row id (uuid4 in the program)
    now,            \* the clock (datetime.utcnow)
    session,        \* st.session_state and the widget state of the browser session
    call,           \* the arguments of the last matcher call
    ret,            \* the value the last matcher call returned
    runs            \* the script runs in progress of the concurrent sessions

db == <<users, savings, groups, memberships, posts, votes, notifications, next_id>>
vars == <<users, savings, groups, memberships, posts, votes, notifications,
          next_id, now, session, call, ret, runs>>

(***************************************************************************)
(* Bounds and input sets                                                   *)
(***************************************************************************)
MaxHist == 2

Users == {"u1", "u2"}
Groups == {"g1"}
NoRow == "none"

Str(s) == [t |-> "str", s |-> s]
Bytes(s) == [t |-> "bytes", s |-> s]
Null == [t |-> "null", s |-> <<>>]

\* " " = 32, "A" = 65, "a" = 97, "b" = 98, "c" = 99
Texts ==
    { <<>>, <<32>>, <<97>>, <<65>>, <<97, 98>>, <<98, 97>>, <<65, 98>>,
      <<97, 98, 99>>, <<97, 98, 99, 98, 98, 98, 98>> }

\* A candidate: a text or None.  A stored item name: a text as create_post
\* stores it (stripped), NULL or a BLOB.
Candidates == {Str(s) : s \in Texts} \cup {Null}
ColumnValues == (Candidates \ {Str(<<32>>)}) \cup {Bytes(<<97, 98>>)}

Thresholds ==
    { <<0 - 1, 2>>, <<0, 1>>, <<3, 5>>, <<31, 50>>, <<2, 3>>, <<1, 1>>, <<3, 2>> }

(***************************************************************************)
(* Rationals                                                               *)
(***************************************************************************)
GE(r, t) == r[1] * t[2] >= t[1] * r[2]
EQ(r, t) == r[1] * t[2] = t[1] * r[2]
GT(r, t) == r[1] * t[2] > t[1] * r[2]

Min2(x, y) == IF x <= y THEN x ELSE y

(***************************************************************************)
(* str.lower / bytes.lower                                                 *)
(***************************************************************************)
LowerChar(c) == IF c >= 65 /\ c <= 90 THEN c + 32 ELSE c

lower(x) == [t |-> x.t, s |-> [i \in 1..Len(x.s) |-> LowerChar(x.s[i])]]

\* None has no lower(): AttributeError.
lower_raises(x) == x.t = "null"

\* Element i (0-based, as in Python) of a str or bytes: a character of a str
\* never equals an int of a bytes.
Elem(x, i) == <<x.t, x.s[i + 1]>>

\* x < y for two str or two bytes: lexicographic by code point.
RECURSIVE LexLess(_, _)
LexLess(s, u) ==
    IF u = <<>> THEN FALSE
    ELSE IF s = <<>> THEN TRUE
    ELSE IF Head(s) # Head(u) THEN Head(s) < Head(u)
    ELSE LexLess(Tail(s), Tail(u))

(***************************************************************************)
(* difflib.SequenceMatcher(None, a, b) with autojunk inactive (it needs    *)
(* len(b) >= 200).  Indices are 0-based and ranges half-open as in Python. *)
(***************************************************************************)
length(x) == Len(x.s)

\* a[i : i+k] == b[j : j+k]
BlockMatches(a, b, i, j, k) == \A d \in 0..(k - 1) : Elem(a, i + d) = Elem(b, j + d)

MatchingBlocksIn(a, b, alo, ahi, blo, bhi) ==
    { m \in (alo..(ahi - 1)) \X (blo..(bhi - 1)) \X (1..Min2(ahi - alo, bhi - blo)) :
        /\ m[1] + m[3] <= ahi
        /\ m[2] + m[3] <= bhi
        /\ BlockMatches(a, b, m[1], m[2], m[3]) }

\* The longest matching block in a[alo:ahi], b[blo:bhi]; of the longest ones
\* the one that starts earliest in a, and of those the earliest in b.
find_longest_match(a, b, alo, ahi, blo, bhi) ==
    LET all == MatchingBlocksIn(a, b, alo, ahi, blo, bhi)
    IN  IF all = {} THEN <<alo, blo, 0>>
        ELSE CHOOSE m \in all :
                \A o \in all :
                    \/ m[3] > o[3]
                    \/ m[3] = o[3] /\ m[1] < o[1]
                    \/ m[3] = o[3] /\ m[1] = o[1] /\ m[2] <= o[2]

\* The sum of the sizes of get_matching_blocks(): the longest block, then
\* the same to its left and to its right.
RECURSIVE matches(_, _, _, _, _, _)
\* The block m = (i, j, k) and what matches on its two sides.
around(m, a, b, alo, ahi, blo, bhi) ==
    IF m[3] = 0 THEN 0
    ELSE m[3]
         + (IF alo < m[1] /\ blo < m[2] THEN matches(a, b, alo, m[1], blo, m[2]) ELSE 0)
         + (IF m[1] + m[3] < ahi /\ m[2] + m[3] < bhi
            THEN matches(a, b, m[1] + m[3], ahi, m[2] + m[3], bhi) ELSE 0)

matches(a, b, alo, ahi, blo, bhi) ==
    around(find_longest_match(a, b, alo, ahi, blo, bhi), a, b, alo, ahi, blo, bhi)

\* _calculate_ratio: 2.0 * matches / length, and 1.0 when both are empty.
calculate_ratio(m, len) == IF len > 0 THEN <<2 * m, len>> ELSE <<1, 1>>

ratio(a, b) ==
    calculate_ratio(matches(a, b, 0, length(a), 0, length(b)), length(a) + length(b))

\* quick_ratio: the size of the multiset intersection of the elements.
Count(x, e) == Cardinality({i \in 0..(length(x) - 1) : Elem(x, i) = e})

\* Mutant: the elements are counted once each, as a set.
quick_ratio_of_sets(a, b) ==
    calculate_ratio(Cardinality({Elem(a, i) : i \in 0..(length(a) - 1)}
                                \cap {Elem(b, i) : i \in 0..(length(b) - 1)}),
                    length(a) + length(b))

quick_ratio(a, b) ==
    LET elems == {Elem(a, i) : i \in 0..(length(a) - 1)}
        avail[S \in SUBSET elems] ==
            IF S = {} THEN 0
            ELSE LET e == CHOOSE x \in S : TRUE
                 IN  Min2(Count(a, e), Count(b, e)) + avail[S \ {e}]
    IN  calculate_ratio(avail[elems], length(a) + length(b))

real_quick_ratio(a, b) ==
    calculate_ratio(Min2(length(a), length(b)), length(a) + length(b))

(***************************************************************************)
(* difflib.get_close_matches(word, possibilities, n=1, cutoff)             *)
(***************************************************************************)
\* The scored list: (ratio, x) for every x whose three ratios reach the cutoff,
\* in the order of possibilities.  seq1 is x, seq2 is word.
RECURSIVE scored(_, _, _)
scored(word, possibilities, cutoff) ==
    IF possibilities = <<>> THEN <<>>
    ELSE LET x == Head(possibilities)
             rest == scored(word, Tail(possibilities), cutoff)
         IN  IF /\ GE(real_quick_ratio(x, word), cutoff)
                /\ GE(quick_ratio(x, word), cutoff)
                /\ GE(ratio(x, word), cutoff)
             THEN <<[score |-> ratio(x, word), x |-> x]>> \o rest
             ELSE rest

\* Mutant: only the scores are compared, so the first of the best stays.
TupleGt_score_only(p, q) == GT(p.score, q.score)

\* (score, x) > (score', x') on tuples: the first differing component decides;
\* a str and a bytes do not order (TypeError).
TupleGtRaises(p, q) == EQ(p.score, q.score) /\ p.x # q.x /\ p.x.t # q.x.t

TupleGt(p, q) ==
    IF ~EQ(p.score, q.score) THEN GT(p.score, q.score)
    ELSE IF p.x = q.x THEN FALSE
    ELSE LexLess(q.x.s, p.x.s)

\* max(result): the running maximum is replaced by a later item only when
\* item > maximum.  [raised, val].
RECURSIVE max_from(_, _, _)
max_from(result, i, best) ==
    IF i > Len(result) THEN [raised |-> FALSE, val |-> best]
    ELSE IF TupleGtRaises(result[i], best) THEN [raised |-> TRUE, val |-> best]
    ELSE IF TupleGt(result[i], best) THEN max_from(result, i + 1, result[i])
    ELSE max_from(result, i + 1, best)

\* heapq.nlargest(1, result)
nlargest1(result) ==
    IF result = <<>> THEN [raised |-> FALSE, list |-> <<>>]
    ELSE LET m == max_from(result, 2, result[1])
         IN  [raised |-> m.raised, list |-> IF m.raised THEN <<>> ELSE <<m.val.x>>]

\* ValueError unless 0.0 <= cutoff <= 1.0.  [raised, list].
get_close_matches(word, possibilities, cutoff) ==
    IF ~(GE(cutoff, <<0, 1>>) /\ GE(<<1, 1>>, cutoff))
    THEN [raised |-> TRUE, list |-> <<>>]
    ELSE nlargest1(scored(word, possibilities, cutoff))

(***************************************************************************)
(* check_purchase_history(user_id, item_name, threshold)                   *)
(*                                                                         *)
(* The returned message is modelled by its parts: verdict is               *)
(* "NoHistory" (the "No past items found" message), "Match" (the message   *)
(* that starts with the warning sign) or "NoMatch"; text is the value the  *)
(* message quotes, matched the lower-cased value the comparison selected,  *)
(* and stage the stage that answered.  The verdict "Error" stands for an   *)
(* exception leaving the function.                                         *)
(***************************************************************************)
\* SELECT item_name FROM posts WHERE user_id=?
select_item_names(table, user_id) ==
    LET mine == SelectSeq(table, LAMBDA p : p.user_id = user_id)
    IN  [i \in 1..Len(mine) |-> mine[i].item_name]

\* r[0] or "": None, "" and b"" are falsy.
or_empty(v) == IF v.t = "null" \/ v.s = <<>> THEN Str(<<>>) ELSE v

past_items_of(rows) == [i \in 1..Len(rows) |-> or_empty(rows[i])]

NoHistory == [verdict |-> "NoHistory", text |-> Null, matched |-> Null, stage |-> 0]
NoMatch == [verdict |-> "NoMatch", text |-> Null, matched |-> Null, stage |-> 2]
Raised == [verdict |-> "Error", text |-> Null, matched |-> Null, stage |-> 1]
Match(orig, matched, stage) ==
    [verdict |-> "Match", text |-> orig, matched |-> matched, stage |-> stage]

\* Mutant: the lower-cased match is reported instead of the original.
orig_of_lowered(past_items, matched) == matched

\* next((p for p in past_items if p.lower() == matched), matched)
orig_of(past_items, matched) ==
    LET hits == {i \in 1..Len(past_items) : lower(past_items[i]) = matched}
    IN  IF hits = {} THEN matched
        ELSE past_items[CHOOSE i \in hits : \A j \in hits : i <= j]

\* Mutant: the candidate is compared as typed, not lower-cased.
candidate_key_as_typed(item_name) == item_name

\* item_name.lower(), the word both stages compare the past items with.
candidate_key(item_name) == lower(item_name)

\* [p.lower() for p in past_items]
lowered(past_items) == [i \in 1..Len(past_items) |-> lower(past_items[i])]

\* if matches: ... on the result m of get_close_matches.
stage1_result(m, past_items) ==
    IF m.raised
    THEN [raised |-> TRUE, found |-> FALSE, orig |-> Null, matched |-> Null]
    ELSE IF m.list # <<>>
    THEN [raised |-> FALSE, found |-> TRUE,
          orig |-> orig_of(past_items, m.list[1]), matched |-> m.list[1]]
    ELSE [raised |-> FALSE, found |-> FALSE, orig |-> Null, matched |-> Null]

\* The try block of stage 1: [raised, found, orig, matched].
stage1(past_items, item_name, threshold) ==
    IF lower_raises(item_name)
    THEN [raised |-> TRUE, found |-> FALSE, orig |-> Null, matched |-> Null]
    ELSE stage1_result(get_close_matches(candidate_key(item_name), lowered(past_items),
                                         threshold),
                       past_items)

\* The try block of one turn of the fallback loop raises.
compare_raises(past, item_name) == lower_raises(past) \/ lower_raises(item_name)

\* return ... '{past}' ... for the turn i of the loop.
first_hit_at(i, past_items) == Match(past_items[i], lower(past_items[i]), 2)

\* The loop returns at the first of the turns hits that reach the threshold.
first_hit(hits, past_items) ==
    IF hits = {} THEN NoMatch
    ELSE first_hit_at(CHOOSE k \in hits : \A j \in hits : k <= j, past_items)

\* Mutant: ratio > threshold instead of ratio >= threshold.
stage2_strict(past_items, item_name, threshold) ==
    first_hit({i \in 1..Len(past_items) :
                 /\ ~compare_raises(past_items[i], item_name)
                 /\ GT(ratio(lower(past_items[i]), candidate_key(item_name)), threshold)},
              past_items)

\* The fallback loop: the first past item whose ratio reaches the threshold;
\* a turn that raises is skipped (continue).
stage2(past_items, item_name, threshold) ==
    first_hit({i \in 1..Len(past_items) :
                 /\ ~compare_raises(past_items[i], item_name)
                 /\ GE(ratio(lower(past_items[i]), candidate_key(item_name)), threshold)},
              past_items)

\* What follows the try block s1 of stage 1: its match, or the fallback loop
\* when it raised (except Exception: pass) or found nothing.
after_stage1(s1, past_items, item_name, threshold) ==
    IF ~s1.raised /\ s1.found THEN Match(s1.orig, s1.matched, 1)
    ELSE stage2(past_items, item_name, threshold)

\* Mutant: no check for an empty history.
check_items_no_empty_check(past_items, item_name, threshold) ==
    after_stage1(stage1(past_items, item_name, threshold), past_items, item_name, threshold)

\* Mutant: the exception of stage 1 is not caught.
check_items_uncaught(past_items, item_name, threshold) ==
    IF past_items = <<>> THEN NoHistory
    ELSE LET s1 == stage1(past_items, item_name, threshold)
         IN  IF s1.raised THEN Raised
             ELSE IF s1.found THEN Match(s1.orig, s1.matched, 1)
             ELSE stage2(past_items, item_name, threshold)

\* Mutant: no fallback loop after stage 1.
check_items_no_fallback(past_items, item_name, threshold) ==
    IF past_items = <<>> THEN NoHistory
    ELSE LET s1 == stage1(past_items, item_name, threshold)
         IN  IF ~s1.raised /\ s1.found THEN Match(s1.orig, s1.matched, 1)
             ELSE NoMatch

\* The function after its SELECT.  An exception of stage 1 is swallowed
\* (except Exception: pass) and the fallback loop runs.
check_items(past_items, item_name, threshold) ==
    IF past_items = <<>> THEN NoHistory
    ELSE after_stage1(stage1(past_items, item_name, threshold),
                      past_items, item_name, threshold)

check_purchase_history(table, user_id, item_name, threshold) ==
    check_items(past_items_of(select_item_names(table, user_id)), item_name, threshold)

(***************************************************************************)
(* The matcher on its own: the posts table holds a history of the user     *)
(* "u1", and one call of check_purchase_history is made on it.             *)
(***************************************************************************)
NoCall == [user_id |-> NoRow, item_name |-> Null, threshold |-> <<0, 1>>]
NoRet == [verdict |-> "none", text |-> Null, matched |-> Null, stage |-> 0]

\* The sessions whose script runs interleave, and no run in progress.
Sessions == {"s1", "s2"}
NoClick == [kind |-> "none", post_id |-> 0, arg |-> "none"]
Idle == [pc |-> "idle", rows |-> <<>>, i |-> 0, p |-> NoRow, click |-> NoClick]
NoRuns == [s \in Sessions |-> Idle]

\* st.session_state (user, active_gid, post_auto_skip) and the state of the
\* post form's widgets in the browser: the committed item name and the opt-in
\* checkbox ("absent" while it is not on the page).
InitSession ==
    [user |-> NoRow, active_gid |-> NoRow, post_auto_skip |-> FALSE,
     item_name |-> <<>>, checkbox |-> "absent"]

PostRow(id, group_id, user_id, item_name, price, deadline) ==
    [id |-> id, group_id |-> group_id, user_id |-> user_id, item_name |-> item_name,
     price |-> price, deadline |-> deadline, status |-> "pending", decision |-> NoRow]

Histories == UNION {[1..n -> ColumnValues] : n \in 0..MaxHist}

MatcherInit ==
    /\ users = Users
    /\ savings = [u \in Users |-> 0]
    /\ groups = [g \in Groups |-> "u1"]
    /\ memberships = Users \X Groups
    /\ \E h \in Histories :
          posts = [i \in 1..Len(h) |-> PostRow(i, "g1", "u1", h[i], 1, 1)]
    /\ votes = <<>>
    /\ notifications = <<>>
    /\ next_id = Len(posts) + 1
    /\ now = 0
    /\ session = InitSession
    /\ call = NoCall
    /\ ret = NoRet
    /\ runs = NoRuns

\* Mutant: the call keeps its verdict in the session state.
CallMatcher_keeps_verdict(user_id, item_name, threshold) ==
    /\ ret = NoRet
    /\ call' = [user_id |-> user_id, item_name |-> item_name, threshold |-> threshold]
    /\ ret' = check_purchase_history(posts, user_id, item_name, threshold)
    /\ session' = [session EXCEPT !.post_auto_skip = ret'.verdict = "Match"]
    /\ UNCHANGED <<db, now, runs>>

\* One call: it reads the posts table and returns; nothing is written.
CallMatcher(user_id, item_name, threshold) ==
    /\ ret = NoRet
    /\ call' = [user_id |-> user_id, item_name |-> item_name, threshold |-> threshold]
    /\ ret' = check_purchase_history(posts, user_id, item_name, threshold)
    /\ UNCHANGED <<db, now, session, runs>>

MatcherNext ==
    \E u \in Users, c \in Candidates, t \in Thresholds : CallMatcher(u, c, t)

MatcherSpec == MatcherInit /\ [][MatcherNext]_vars

\* What the call saw.
history == past_items_of(select_item_names(posts, call.user_id))
returned == ret # NoRet

(***************************************************************************)
(* Claims about the matcher (checked under MatcherSpec)                    *)
(***************************************************************************)
Indices == 1..Len(history)

\* Entry i is compared without an exception and its ratio to the candidate
\* reaches the threshold t.
Reaches(i, t) ==
    /\ call.item_name.t # "null"
    /\ GE(ratio(lower(history[i]), lower(call.item_name)), t)

First(S) == CHOOSE i \in S : \A j \in S : i <= j

InUnitRange(t) == GE(t, <<0, 1>>) /\ GE(<<1, 1>>, t)

\* C1: the verdict is NoHistory exactly when the user's history is empty; a
\* non-empty history yields Match or NoMatch.
C1_NoHistoryIffEmpty ==
    returned =>
        /\ (ret.verdict = "NoHistory") <=> (Len(history) = 0)
        /\ Len(history) > 0 => ret.verdict \in {"Match", "NoMatch"}

C1_Witness ==
    /\ returned /\ ret.verdict = "NoHistory" /\ Len(history) = 0
    /\ call.item_name = Str(<<97, 98>>) /\ call.threshold = <<3, 2>>

\* C2: a candidate equal, ignoring case, to some entry of a non-empty history
\* yields Match at every threshold <= 1.
C2_EqualIgnoringCaseMatches ==
    (/\ returned
     /\ call.item_name.t = "str"
     /\ GE(<<1, 1>>, call.threshold)
     /\ \E i \in Indices : lower(history[i]) = lower(call.item_name))
        => ret.verdict = "Match"

C2_Witness ==
    /\ returned /\ ret.verdict = "Match"
    /\ call.item_name = Str(<<97, 98>>) /\ call.threshold = <<1, 1>>
    /\ Len(history) = 2 /\ history[2] = Str(<<65, 98>>) /\ history[1] = Str(<<97>>)

\* The entries whose ratio reaches the threshold and is the highest.
Best(t) ==
    {i \in Indices : Reaches(i, t) /\ \A j \in Indices :
        GE(ratio(lower(history[i]), lower(call.item_name)),
           ratio(lower(history[j]), lower(call.item_name)))}

\* C3 as stated: when stage 1 answers it reports the entry with the highest
\* ratio among those reaching the threshold, the first one in history order
\* when several share it.
C3_StageOneFirstOfBest ==
    (returned /\ ret.verdict = "Match" /\ ret.stage = 1)
        => /\ Best(call.threshold) # {}
           /\ ret.text = history[First(Best(call.threshold))]

\* Of the best entries, those whose lower-cased text is the greatest in
\* code-point order.
GreatestBest(t) ==
    {i \in Best(t) : \A j \in Best(t) : ~LexLess(lower(history[i]).s, lower(history[j]).s)}

\* C3 amended: when stage 1 answers it reports the entry with the highest ratio
\* among those reaching the threshold; when several share it, the one whose
\* lower-cased text is greatest in code-point order (the first such entry in
\* history order).  For a string candidate, a history of strings and a
\* threshold in [0, 1], stage 1 answers whenever some entry reaches the
\* threshold.
C3_StageOneGreatestOfBest ==
    /\ (returned /\ ret.verdict = "Match" /\ ret.stage = 1)
          => /\ GreatestBest(call.threshold) # {}
             /\ ret.text = history[First(GreatestBest(call.threshold))]
    /\ (/\ returned
        /\ InUnitRange(call.threshold)
        /\ call.item_name.t = "str"
        /\ \A i \in Indices : history[i].t = "str"
        /\ \E i \in Indices : Reaches(i, call.threshold))
          => ret.verdict = "Match" /\ ret.stage = 1

\* Two entries tie at ratio 2/3 = threshold and the later one is reported.
C3_Witness ==
    /\ returned /\ ret.verdict = "Match" /\ ret.stage = 1
    /\ call.item_name = Str(<<97>>) /\ call.threshold = <<2, 3>>
    /\ Len(history) = 2 /\ history[1] = Str(<<97, 98>>) /\ history[2] = Str(<<98, 97>>)
    /\ ret.text = history[2]

\* C4: the text a Match reports is an original entry of the history, one
\* whose lower-cased form is the lower-cased value the comparison selected.
C4_MatchReportsOriginal ==
    (returned /\ ret.verdict = "Match")
        => \E i \in Indices : ret.text = history[i] /\ lower(history[i]) = ret.matched

C4_Witness ==
    /\ returned /\ ret.verdict = "Match" /\ ret.stage = 1
    /\ ret.text = Str(<<65, 98>>) /\ ret.matched = Str(<<97, 98>>)
    /\ call.item_name = Str(<<97, 98>>)

\* C5: a Match at a threshold is a Match at every lower threshold.
C5_ThresholdMonotone ==
    (returned /\ ret.verdict = "Match")
        => \A t2 \in Thresholds :
              GT(call.threshold, t2)
                 => check_purchase_history(posts, call.user_id, call.item_name, t2).verdict
                       = "Match"

\* A Match by stage 1 at 0.6, with a lower threshold for which stage 1 raises.
C5_Witness ==
    /\ returned /\ ret.verdict = "Match" /\ ret.stage = 1
    /\ call.threshold = <<3, 5>>
    /\ ~InUnitRange(<<0 - 1, 2>>) /\ <<0 - 1, 2>> \in Thresholds

\* C6: when stage 1 reports nothing, the verdict is Match naming the first
\* entry, in history order, whose ratio reaches the threshold; NoMatch is
\* returned exactly when no entry reaches it.
C6_FallbackFirstInOrder ==
    (returned /\ Len(history) > 0)
        => LET hits == {i \in Indices : Reaches(i, call.threshold)}
           IN  /\ (ret.verdict = "NoMatch") <=> (hits = {})
               /\ (ret.stage = 2 /\ hits # {})
                     => ret.verdict = "Match" /\ ret.text = history[First(hits)]

\* Stage 2 answers with the first entry although the second has the higher ratio.
C6_Witness ==
    /\ returned /\ ret.verdict = "Match" /\ ret.stage = 2
    /\ Len(history) = 2 /\ ret.text = history[1] /\ history[1] # history[2]
    /\ GT(ratio(lower(history[2]), lower(call.item_name)),
          ratio(lower(history[1]), lower(call.item_name)))

\* C7: every call returns one of the three verdicts; no exception leaves the
\* function, and a comparison that raises counts as no similarity.
C7_Total ==
    returned =>
        /\ ret.verdict \in {"NoHistory", "Match", "NoMatch"}
        /\ (Len(history) > 0 /\ call.item_name.t = "null") => ret.verdict = "NoMatch"

\* Stage 1 raised (threshold 1.5) and the call still returned a verdict.
C7_Witness ==
    /\ returned /\ ret.verdict = "NoMatch"
    /\ call.threshold = <<3, 2>> /\ Len(history) = 2
    /\ history[1] = Str(<<>>) /\ history[2].t = "bytes"

AllStrings == \A i \in Indices : history[i].t = "str"

\* C15: on a history of strings, a string candidate and a threshold in [0, 1]
\* the stages agree: when stage 1 finds nothing no entry has ratio >=
\* threshold and stage 2 does not return Match; a Match of stage 2 needs a
\* threshold outside [0, 1] or an entry that is not a string.
C15_StagesAgree ==
    (returned /\ Len(history) > 0) =>
        /\ (AllStrings /\ call.item_name.t = "str" /\ InUnitRange(call.threshold))
              => /\ ~stage1(history, call.item_name, call.threshold).raised
                 /\ ~stage1(history, call.item_name, call.threshold).found
                       => \A i \in Indices : ~Reaches(i, call.threshold)
                 /\ ~(ret.verdict = "Match" /\ ret.stage = 2)
                 /\ stage2(history, call.item_name, call.threshold).verdict = ret.verdict
        /\ (ret.verdict = "Match" /\ ret.stage = 2)
              => /\ stage1(history, call.item_name, call.threshold).raised
                 /\ ~InUnitRange(call.threshold) \/ ~AllStrings

\* Stage 1 found nothing at threshold 0.6 on two different strings, one of
\* which has a ratio above 0 to the candidate, and the call returned NoMatch.
C15_Witness ==
    /\ returned /\ ret.verdict = "NoMatch" /\ AllStrings /\ call.item_name.t = "str"
    /\ call.threshold = <<3, 5>> /\ Len(history) = 2 /\ history[1] # history[2]
    /\ \E i \in Indices : Reaches(i, <<1, 2>>)

\* C10: a call of check_purchase_history leaves every table (users, groups,
\* memberships, posts, votes, notifications, savings) and the session state
\* as they were, whatever the input and the verdict.
C10_NoSideEffect ==
    [][(\E u \in Users, c \in Candidates, t \in Thresholds : CallMatcher(u, c, t))
          => /\ users' = users /\ groups' = groups /\ memberships' = memberships
             /\ posts' = posts /\ votes' = votes /\ notifications' = notifications
             /\ savings' = savings /\ next_id' = next_id
             /\ session' = session]_vars

\* A call on a history of two rows returned Match from stage 1, and the tables
\* and the session are those the call started with.
C10_Witness ==
    /\ returned /\ ret.verdict = "Match" /\ ret.stage = 1
    /\ Len(posts) = 2 /\ posts[1].item_name # posts[2].item_name
    /\ session = InitSession /\ savings = [u \in Users |-> 0]

(***************************************************************************)
(* The application: the tables and the operations on them.  An operation   *)
(* takes the database D, a record of the tables, and gives the database    *)
(* after its commit.                                                       *)
(***************************************************************************)
MaxPosts == 2
MaxTime == 1
\* Decisions stop once a total would pass MaxSaved.
MaxSaved == 2

\* Inputs of the post form: the item names " " and "a", prices, and the
\* voting window of one hour (the slider's minimum).
FormNames == { <<32>>, <<97>> }
Prices == {0, 1}
VotingWindow == 1
VoteOptions == {"buy", "dont_buy", "neutral"}
Comments == { <<>>, <<97, 32>> }
\* The submissions of the vote form: every option, one of them with the
\* comment "a ".
VoteForms == { <<"buy", <<>> >>, <<"dont_buy", <<97, 32>> >>, <<"neutral", <<>> >> }

\* threshold=0.6, the default, and threshold=0.62 of the post form.
DefaultThreshold == <<3, 5>>
FormThreshold == <<31, 50>>

DB ==
    [users |-> users, savings |-> savings, groups |-> groups,
     memberships |-> memberships, posts |-> posts, votes |-> votes,
     notifications |-> notifications, next_id |-> next_id]

Commit(D) ==
    /\ users' = D.users
    /\ savings' = D.savings
    /\ groups' = D.groups
    /\ memberships' = D.memberships
    /\ posts' = D.posts
    /\ votes' = D.votes
    /\ notifications' = D.notifications
    /\ next_id' = D.next_id

\* str.strip(): leading and trailing blanks removed.
RECURSIVE lstrip(_)
lstrip(s) == IF s # <<>> /\ Head(s) = 32 THEN lstrip(Tail(s)) ELSE s

RECURSIVE rstrip(_)
rstrip(s) ==
    IF s # <<>> /\ s[Len(s)] = 32 THEN rstrip(SubSeq(s, 1, Len(s) - 1)) ELSE s

strip(s) == rstrip(lstrip(s))

\* get_savings: the total, 0.0 when the user has no row.
get_savings(table, user_id) == IF user_id \in DOMAIN table THEN table[user_id] ELSE 0

\* INSERT OR REPLACE INTO savings
put_savings(table, user_id, total) ==
    [u \in DOMAIN table \cup {user_id} |-> IF u = user_id THEN total ELSE table[u]]

\* INSERT OR IGNORE INTO savings (user_id, 0)
ensure_savings_row(D, user_id) ==
    IF user_id \in DOMAIN D.savings THEN D
    ELSE [D EXCEPT !.savings = put_savings(D.savings, user_id, 0)]

\* The email is new (the caller checks it): the user row and its savings row.
create_user(D, uid) ==
    ensure_savings_row([D EXCEPT !.users = D.users \cup {uid}], uid)

create_group(D, owner_id, gid) ==
    [D EXCEPT !.groups[gid] = owner_id,
              !.memberships = D.memberships \cup {<<owner_id, gid>>}]

\* The invite code is that of group gid; a second join changes nothing.
join_group(D, user_id, gid) ==
    [D EXCEPT !.memberships = D.memberships \cup {<<user_id, gid>>}]

GroupExists(D, gid) == D.groups[gid] \in Users

\* list_groups: the groups the user is a member of.
list_groups(D, user_id) ==
    {g \in Groups : GroupExists(D, g) /\ <<user_id, g>> \in D.memberships}

Notification(group_id, post_id, type) ==
    [group_id |-> group_id, post_id |-> post_id, type |-> type]

create_post(D, group_id, user_id, item_name, price, deadline) ==
    [D EXCEPT
        !.posts = Append(D.posts,
                         PostRow(D.next_id, group_id, user_id, Str(strip(item_name)),
                                 price, deadline)),
        !.notifications = Append(D.notifications,
                                 Notification(group_id, D.next_id, "new_post")),
        !.next_id = D.next_id + 1]

\* SELECT * FROM posts WHERE group_id=? ORDER BY created_at DESC
RECURSIVE reversed(_)
reversed(q) == IF q = <<>> THEN <<>> ELSE Append(reversed(Tail(q)), Head(q))

list_posts(D, group_id) ==
    reversed(SelectSeq(D.posts, LAMBDA p : p.group_id = group_id))

PostIds(D) == {D.posts[i].id : i \in 1..Len(D.posts)}

get_post(D, post_id) ==
    D.posts[CHOOSE i \in 1..Len(D.posts) : D.posts[i].id = post_id]

\* UPDATE posts SET ... WHERE id=?
update_post(table, post_id, status, decision) ==
    [i \in 1..Len(table) |->
        IF table[i].id = post_id
        THEN [table[i] EXCEPT !.status = status, !.decision = decision]
        ELSE table[i]]

\* close_if_due(post) on the row as the caller read it.
is_due(post, clock) == post.status = "pending" /\ clock >= post.deadline

close_if_due(D, post, clock) ==
    IF ~is_due(post, clock) THEN D
    ELSE [D EXCEPT
            !.posts = [i \in 1..Len(D.posts) |->
                          IF D.posts[i].id = post.id
                          THEN [D.posts[i] EXCEPT !.status = "closed"]
                          ELSE D.posts[i]],
            !.notifications = Append(D.notifications,
                                     Notification(post.group_id, post.id, "closed"))]

\* Mutant: the price is credited whatever the decision.
decide_post_always_credits(D, post_id, decision) ==
    LET D1 == [D EXCEPT !.posts = update_post(D.posts, post_id, "decided", decision)]
    IN  IF post_id \in PostIds(D1)
        THEN LET r == get_post(D1, post_id)
             IN  [D1 EXCEPT !.savings =
                     put_savings(D1.savings, r.user_id,
                                 get_savings(D1.savings, r.user_id) + r.price)]
        ELSE D1

decide_post(D, post_id, decision) ==
    LET D1 == [D EXCEPT !.posts = update_post(D.posts, post_id, "decided", decision)]
    IN  IF post_id \in PostIds(D1) /\ decision = "skipped"
        THEN LET r == get_post(D1, post_id)
             IN  [D1 EXCEPT !.savings =
                     put_savings(D1.savings, r.user_id,
                                 get_savings(D1.savings, r.user_id) + r.price)]
        ELSE D1

\* Mutant: the INSERT succeeds although the user has a row for the post.
cast_vote_inserts(D, post_id, user_id, vote, comment) ==
    [D EXCEPT !.votes = Append(D.votes, [post_id |-> post_id, user_id |-> user_id,
                                         vote |-> vote, comment |-> strip(comment)])]

\* INSERT INTO votes, or UPDATE on the UNIQUE(post_id, user_id) conflict.
cast_vote(D, post_id, user_id, vote, comment) ==
    LET row == [post_id |-> post_id, user_id |-> user_id, vote |-> vote,
                comment |-> strip(comment)]
        old == {i \in 1..Len(D.votes) :
                    D.votes[i].post_id = post_id /\ D.votes[i].user_id = user_id}
    IN  IF old = {} THEN [D EXCEPT !.votes = Append(D.votes, row)]
        ELSE [D EXCEPT !.votes = [i \in 1..Len(D.votes) |->
                                     IF i \in old THEN row ELSE D.votes[i]]]

\* post_votes: the vote rows of the post, joined with the users table (their
\* order, by created_at, plays no part in the counts).
post_votes(D, post_id) ==
    SelectSeq(D.votes, LAMBDA v : v.post_id = post_id /\ v.user_id \in D.users)

\* vote_counts: the number of rows of each of the three votes.
vote_counts(D, post_id) ==
    [o \in VoteOptions |->
        Cardinality({k \in 1..Len(post_votes(D, post_id)) :
                        post_votes(D, post_id)[k].vote = o})]

\* delete_post returns True: the post exists, is the user's and is pending.
can_delete_post(D, post_id, user_id) ==
    /\ post_id \in PostIds(D)
    /\ get_post(D, post_id).user_id = user_id
    /\ get_post(D, post_id).status = "pending"

\* Mutant: the votes of the post are left in the table.
delete_post_keeps_votes(D, post_id, user_id) ==
    IF ~can_delete_post(D, post_id, user_id) THEN D
    ELSE [D EXCEPT
            !.notifications = SelectSeq(D.notifications, LAMBDA n : n.post_id # post_id),
            !.posts = SelectSeq(D.posts, LAMBDA q : q.id # post_id)]

delete_post(D, post_id, user_id) ==
    IF ~can_delete_post(D, post_id, user_id) THEN D
    ELSE [D EXCEPT
            !.votes = SelectSeq(D.votes, LAMBDA v : v.post_id # post_id),
            !.notifications = SelectSeq(D.notifications, LAMBDA n : n.post_id # post_id),
            !.posts = SelectSeq(D.posts, LAMBDA q : q.id # post_id)]

\* delete_group returns True: the group exists and the user owns it.  The id
\* of a deleted group is not given to a later group (uuid4): "deleted".
can_delete_group(D, group_id, user_id) ==
    GroupExists(D, group_id) /\ D.groups[group_id] = user_id

delete_group(D, group_id, user_id) ==
    IF ~can_delete_group(D, group_id, user_id) THEN D
    ELSE LET pids == {D.posts[i].id : i \in {k \in 1..Len(D.posts) :
                                                D.posts[k].group_id = group_id}}
         IN  [D EXCEPT
                !.votes = SelectSeq(D.votes, LAMBDA v : v.post_id \notin pids),
                !.notifications =
                    SelectSeq(D.notifications, LAMBDA n : n.post_id \notin pids),
                !.posts = SelectSeq(D.posts, LAMBDA q : q.group_id # group_id),
                !.memberships = {m \in D.memberships : m[2] # group_id},
                !.groups[group_id] = "deleted"]

\* The id of a deleted account is not given to a later one (uuid4): the users
\* table keeps a mark of it.
Deleted(user_id) == [u1 |-> "u1 deleted", u2 |-> "u2 deleted"][user_id]

\* The DELETE statements of clear_user_data that follow its delete_group calls.
after_owned_groups(D, user_id) ==
    [D EXCEPT
        !.votes = SelectSeq(D.votes, LAMBDA v : v.user_id # user_id),
        !.posts = SelectSeq(D.posts, LAMBDA q : q.user_id # user_id),
        !.memberships = {m \in D.memberships : m[1] # user_id},
        !.savings = [u \in DOMAIN D.savings \ {user_id} |-> D.savings[u]],
        !.users = (D.users \ {user_id}) \cup {Deleted(user_id)}]

\* clear_user_data: the groups the user owns go through delete_group, then
\* the votes the user cast, the posts, memberships and savings row of the user
\* and the user row are deleted.
clear_user_data(D, user_id) ==
    after_owned_groups(
        IF can_delete_group(D, "g1", user_id) THEN delete_group(D, "g1", user_id) ELSE D,
        user_id)

(***************************************************************************)
(* One run of the Streamlit script.  Every interaction of the user runs    *)
(* the script from the top; st.rerun() ends the run and starts a new one   *)
(* with no interaction.  A run is a record [db, sess].                     *)
(***************************************************************************)
\* item_name and item_name.strip() is falsy
blank(name) == strip(name) = <<>>

\* The post form is not rendered: its widgets lose their state.
form_dropped(S) == [S EXCEPT !.item_name = <<>>, !.checkbox = "absent"]

\* The sidebar's selectbox sets active_gid (there is one group in the model).
selected_group(D, user_id) ==
    IF list_groups(D, user_id) = {} THEN NoRow
    ELSE CHOOSE g \in list_groups(D, user_id) : TRUE

\* The run of a logged-in user down to the post form.
header(D, S) ==
    LET D1 == ensure_savings_row(D, S.user)
    IN  [db |-> D1, sess |-> [S EXCEPT !.active_gid = selected_group(D1, S.user)]]

\* The live suggestion of the post form, with the item name and the checkbox
\* as the browser sends them.  The checkbox returns its value only when it was
\* on the page before; a non-blank name that does not match resets
\* post_auto_skip, a blank name leaves it as it is.
live_suggestion(D, S, name, tick) ==
    IF blank(name) THEN [S EXCEPT !.item_name = name, !.checkbox = "absent"]
    ELSE IF check_purchase_history(D.posts, S.user, Str(strip(name)), FormThreshold).verdict
               = "Match"
    THEN LET value == S.checkbox # "absent" /\ tick
         IN  [S EXCEPT !.item_name = name,
                       !.checkbox = IF value THEN "on" ELSE "off",
                       !.post_auto_skip = value]
    ELSE [S EXCEPT !.item_name = name, !.checkbox = "absent", !.post_auto_skip = FALSE]

\* for p in posts: if close_if_due(p): ...   on the rows list_posts returned
RECURSIVE close_all(_, _, _)
close_all(D, rows, clock) ==
    IF rows = <<>> THEN D
    ELSE close_all(close_if_due(D, Head(rows), clock), Tail(rows), clock)

\* The loop from its start to the post post_id, that post included.
RECURSIVE close_until(_, _, _, _)
close_until(D, rows, post_id, clock) ==
    IF rows = <<>> THEN D
    ELSE IF Head(rows).id = post_id THEN close_if_due(D, Head(rows), clock)
    ELSE close_until(close_if_due(D, Head(rows), clock), Tail(rows), post_id, clock)

\* Mutant: the poster's history without the post that is displayed.
poster_suggestion_of_other_posts(D, p) ==
    check_purchase_history(SelectSeq(D.posts, LAMBDA row : row.id # p.id),
                           p.user_id, p.item_name, DefaultThreshold)

\* The poster suggestion shown with the post p: the matcher on the poster's
\* whole history, at the default threshold.
poster_suggestion(D, p) ==
    check_purchase_history(D.posts, p.user_id, p.item_name, DefaultThreshold)

\* A whole run with no interaction.
render(D, S, clock) ==
    IF S.user = NoRow THEN [db |-> D, sess |-> form_dropped(S)]
    ELSE LET h == header(D, S)
         IN  IF h.sess.active_gid = NoRow
             THEN [db |-> h.db, sess |-> form_dropped(h.sess)]
             ELSE [db |-> close_all(h.db, list_posts(h.db, h.sess.active_gid), clock),
                   sess |-> live_suggestion(h.db, h.sess, S.item_name, S.checkbox = "on")]

\* A run of a user with an open group, down to the post post_id of the loop.
run_until(D, S, post_id, clock) ==
    LET h == header(D, S)
    IN  [db |-> close_until(h.db, list_posts(h.db, h.sess.active_gid), post_id, clock),
         sess |-> live_suggestion(h.db, h.sess, S.item_name, S.checkbox = "on")]

\* The handling of "Post to group" after the live suggestion.
submit_post(D, S, name, price, clock) ==
    IF name = <<>> \/ price <= 0
    THEN [db |-> close_all(D, list_posts(D, S.active_gid), clock), sess |-> S]
    ELSE LET D1 == create_post(D, S.active_gid, S.user, name, price, clock + VotingWindow)
         IN  IF S.post_auto_skip
             THEN render(decide_post(D1, D.next_id, "skipped"),
                         [S EXCEPT !.post_auto_skip = FALSE], clock)
             ELSE render(D1, S, clock)

\* The run run ends: its database is the committed one.
Finish(run) ==
    \E r \in {run} : Commit(r.db) /\ session' = r.sess /\ UNCHANGED <<now, call, ret, runs>>

LoggedIn == session.user # NoRow
GroupOpen == LoggedIn /\ session.active_gid # NoRow

\* The posts the page of the session shows.
OnPage(post_id) ==
    /\ GroupOpen
    /\ post_id \in PostIds(DB)
    /\ get_post(DB, post_id).group_id = session.active_gid

(***************************************************************************)
(* The interactions                                                        *)
(***************************************************************************)
Init ==
    /\ users = {}
    /\ savings = <<>>
    /\ groups = [g \in Groups |-> NoRow]
    /\ memberships = {}
    /\ posts = <<>>
    /\ votes = <<>>
    /\ notifications = <<>>
    /\ next_id = 1
    /\ now = 0
    /\ session = InitSession
    /\ call = NoCall
    /\ ret = NoRet
    /\ runs = NoRuns

SignUp(u) ==
    /\ ~LoggedIn
    /\ u \notin users
    /\ Deleted(u) \notin users
    /\ \E D1 \in {create_user(DB, u)} :
          Finish(render(ensure_savings_row(D1, u), [session EXCEPT !.user = u], now))

Login(u) ==
    /\ ~LoggedIn
    /\ u \in users
    /\ Finish(render(ensure_savings_row(DB, u), [session EXCEPT !.user = u], now))

Logout ==
    /\ LoggedIn
    /\ Finish(render(ensure_savings_row(DB, session.user),
                     [session EXCEPT !.user = NoRow, !.active_gid = NoRow], now))

CreateGroup(g) ==
    /\ LoggedIn
    /\ groups[g] = NoRow
    /\ \E h \in {header(DB, session)} :
          Finish(render(create_group(h.db, session.user, g), h.sess, now))

JoinGroup(g) ==
    /\ LoggedIn
    /\ GroupExists(DB, g)
    /\ \E h \in {header(DB, session)} :
          Finish(render(join_group(h.db, session.user, g), h.sess, now))

DeleteGroup ==
    /\ GroupOpen
    /\ groups[session.active_gid] = session.user
    /\ \E h \in {header(DB, session)} :
          Finish(render(delete_group(h.db, h.sess.active_gid, session.user),
                        [h.sess EXCEPT !.active_gid = NoRow], now))

SubmitPost(name, price, tick) ==
    /\ GroupOpen
    /\ tick => session.checkbox # "absent"
    /\ (name # <<>> /\ price > 0) => next_id <= MaxPosts
    /\ \E h \in {header(DB, session)} :
          \E S1 \in {live_suggestion(h.db, h.sess, name, tick)} :
             Finish(submit_post(h.db, S1, name, price, now))

\* "Delete My Account & Data"
DeleteAccount ==
    /\ LoggedIn
    /\ \E h \in {header(DB, session)} :
          Finish(render(clear_user_data(h.db, session.user),
                        [h.sess EXCEPT !.user = NoRow, !.active_gid = NoRow], now))

Refresh ==
    /\ LoggedIn
    /\ Finish(render(DB, session, now))

CastVote(post_id, vote, comment) ==
    /\ OnPage(post_id)
    /\ get_post(DB, post_id).status = "pending"
    /\ get_post(DB, post_id).user_id # session.user
    /\ \E r \in {run_until(DB, session, post_id, now)} :
          IF get_post(r.db, post_id).status = "pending"
          THEN Finish(render(cast_vote(r.db, post_id, session.user, vote, comment),
                             r.sess, now))
          ELSE Finish(render(r.db, r.sess, now))

Decide(post_id, decision) ==
    /\ OnPage(post_id)
    /\ get_post(DB, post_id).user_id = session.user
    /\ decision = "skipped"
          => get_savings(savings, session.user) + get_post(DB, post_id).price <= MaxSaved
    /\ \E r \in {run_until(DB, session, post_id, now)} :
          Finish(render(decide_post(r.db, post_id, decision), r.sess, now))

DeletePost(post_id) ==
    /\ OnPage(post_id)
    /\ get_post(DB, post_id).user_id = session.user
    /\ \E r \in {run_until(DB, session, post_id, now)} :
          Finish(render(delete_post(r.db, post_id, session.user), r.sess, now))

Tick ==
    /\ now < MaxTime
    /\ now' = now + 1
    /\ UNCHANGED <<db, session, call, ret, runs>>

\* The posting, deciding and deleting interactions.  The voting interaction
\* is explored by VoteSpec, with the same accounts, groups, posts and clock.
Next ==
    \/ \E u \in Users : SignUp(u)
    \/ \E u \in Users : Login(u)
    \/ Logout
    \/ \E g \in Groups : CreateGroup(g)
    \/ \E g \in Groups : JoinGroup(g)
    \/ DeleteGroup
    \/ \E name \in FormNames, price \in Prices, tick \in BOOLEAN :
          SubmitPost(name, price, tick)
    \/ Refresh
    \/ \E i \in 1..MaxPosts, d \in {"bought", "skipped"} : Decide(i, d)
    \/ \E i \in 1..MaxPosts : DeletePost(i)
    \/ Tick

Spec == Init /\ [][Next]_vars

VoteNext ==
    \/ \E u \in Users : SignUp(u)
    \/ \E u \in Users : Login(u)
    \/ Logout
    \/ \E g \in Groups : CreateGroup(g)
    \/ \E g \in Groups : JoinGroup(g)
    \/ DeleteGroup
    \/ \E name \in FormNames, price \in Prices, tick \in BOOLEAN :
          SubmitPost(name, price, tick)
    \/ Refresh
    \/ \E i \in 1..MaxPosts, f \in VoteForms : CastVote(i, f[1], f[2])
    \/ \E i \in 1..MaxPosts : DeletePost(i)
    \/ DeleteAccount
    \/ Tick

VoteSpec == Init /\ [][VoteNext]_vars

(***************************************************************************)
(* The post-creation workflow and the decisions                            *)
(***************************************************************************)
\* The verdict of the live suggestion for the submitted name: the matcher is
\* not run on a blank name.
submitted_verdict(name) ==
    IF blank(name) THEN "not_run"
    ELSE check_purchase_history(posts, session.user, Str(strip(name)), FormThreshold).verdict

TotalsUnchanged == \A u \in Users : get_savings(savings', u) = get_savings(savings, u)

\* The row of the post post_id after the step.
post_after(post_id) == posts'[CHOOSE k \in 1..Len(posts') : posts'[k].id = post_id]

\* The submission created the post next_id.
Created(name, price, tick) == SubmitPost(name, price, tick) /\ next_id' = next_id + 1

\* C8: a submitted post is recorded as skipped only if the matcher returned
\* Match for the submitted name and the opt-in checkbox was ticked in that
\* submission; when the matcher returns NoHistory or NoMatch, or is not run,
\* the post is created pending and no savings total changes.
C8_SkipOnlyOnOptIn ==
    [][\A name \in FormNames, price \in Prices, tick \in BOOLEAN :
          Created(name, price, tick) =>
             /\ post_after(next_id).status = "decided"
                   => submitted_verdict(name) = "Match" /\ tick
             /\ submitted_verdict(name) # "Match"
                   => post_after(next_id).status = "pending" /\ TotalsUnchanged]_vars

\* C9: a decision "skipped" adds the price of the post to the total of its
\* owner and to no other total, a decision "bought" changes no total, and the
\* post ends decided with the decision given.
C9_DecideCreditsOwner ==
    [][\A i \in 1..MaxPosts, d \in {"bought", "skipped"} :
          Decide(i, d) =>
             /\ \A u \in Users :
                   get_savings(savings', u) =
                      get_savings(savings, u)
                      + (IF u = get_post(DB, i).user_id /\ d = "skipped"
                         THEN get_post(DB, i).price ELSE 0)
             /\ i \in PostIds(DB)'
             /\ get_post(DB, i)'.status = "decided"
             /\ get_post(DB, i)'.decision = d]_vars

\* One post is decided "skipped" and one "bought"; the owner of the skipped
\* one has its price as total, the other user has a savings row of 0.
C9_Witness ==
    /\ \E i, j \in PostIds(DB) :
          /\ get_post(DB, i).decision = "skipped"
          /\ get_post(DB, j).decision = "bought"
          /\ get_post(DB, i).user_id # get_post(DB, j).user_id
          /\ get_savings(savings, get_post(DB, i).user_id) = get_post(DB, i).price
          /\ get_post(DB, i).price > 0
          /\ get_savings(savings, get_post(DB, j).user_id) = 0

(***************************************************************************)
(* Votes and deletions                                                     *)
(***************************************************************************)
Rows(table) == {table[k] : k \in 1..Len(table)}

\* C11: a vote row is inserted or updated only on a post that is pending and
\* whose deadline has not passed; a vote submitted at or after the deadline
\* closes the post and records nothing.
C11_VotesWithinDeadline ==
    [][/\ \A row \in Rows(votes') \ Rows(votes) :
             /\ row.post_id \in PostIds(DB)
             /\ get_post(DB, row.post_id).status = "pending"
             /\ now < get_post(DB, row.post_id).deadline
       /\ \A i \in 1..MaxPosts, v \in VoteOptions, c \in Comments :
             (CastVote(i, v, c) /\ now >= get_post(DB, i).deadline)
                => votes' = votes /\ post_after(i).status = "closed"]_vars

(***************************************************************************)
(* Interleaved script runs.  Each browser session runs the script in its   *)
(* own thread and every database function opens its own connection, so     *)
(* between two calls of one run the calls of another run may commit.  A    *)
(* run is followed through the posts loop: posts = list_posts(active_gid)  *)
(* is its snapshot, rows[i] the row the loop is at, p the row the widgets  *)
(* of that post are drawn from, click the button or form submitted.        *)
(* Session s1 is that of user u1 and s2 that of u2; both are in group g1,  *)
(* which holds one pending post, of u1.                                    *)
(***************************************************************************)
SessionUser == [s1 |-> "u1", s2 |-> "u2"]

Clicks ==
    {NoClick}
    \cup {[kind |-> "vote", post_id |-> i, arg |-> v] : i \in 1..MaxPosts, v \in {"buy"}}
    \cup {[kind |-> "decide", post_id |-> i, arg |-> d] :
             i \in 1..MaxPosts, d \in {"bought", "skipped"}}
    \cup {[kind |-> "delete", post_id |-> i, arg |-> "none"] : i \in 1..MaxPosts}

ConcInit ==
    /\ users = Users
    /\ savings = [u \in Users |-> 0]
    /\ groups = [g \in Groups |-> "u1"]
    /\ memberships = Users \X Groups
    /\ posts = <<PostRow(1, "g1", "u1", Str(<<97>>), 1, VotingWindow)>>
    /\ votes = <<>>
    /\ notifications = <<Notification("g1", 1, "new_post")>>
    /\ next_id = 2
    /\ now = 0
    /\ session = InitSession
    /\ call = NoCall
    /\ ret = NoRet
    /\ runs = NoRuns

\* The run of session s ends (st.rerun() or the end of the script).
EndRun(s) == runs' = [runs EXCEPT ![s] = Idle]

\* The page of the user shows the widget of the click: the decision and
\* delete buttons on the user's own posts, the vote form on the posts of the
\* others.
Clickable(s, click) ==
    \/ click = NoClick
    \/ /\ click.post_id \in PostIds(DB)
       /\ (click.kind \in {"decide", "delete"})
             <=> (get_post(DB, click.post_id).user_id = SessionUser[s])

\* posts = list_posts(active_gid): the run starts with its snapshot (with no
\* post there is no loop).
StartRun(s, click) ==
    /\ runs[s].pc = "idle"
    /\ Clickable(s, click)
    /\ list_posts(DB, "g1") # <<>>
    /\ runs' = [runs EXCEPT ![s] =
                    [pc |-> "close", rows |-> list_posts(DB, "g1"), i |-> 1,
                     p |-> NoRow, click |-> click]]
    /\ UNCHANGED <<db, now, session, call, ret>>

\* if close_if_due(p): p = get_post(p["id"])   on the row of the snapshot.
\* get_post gives None for a post deleted meanwhile, and the run ends on the
\* AttributeError of p.get.
CloseStep(s) ==
    /\ runs[s].pc = "close"
    /\ \E row \in {runs[s].rows[runs[s].i]} :
          \E D1 \in {close_if_due(DB, row, now)} :
             /\ Commit(D1)
             /\ IF ~is_due(row, now)
                THEN runs' = [runs EXCEPT ![s].pc = "act", ![s].p = row]
                ELSE IF row.id \in PostIds(D1)
                THEN runs' = [runs EXCEPT ![s].pc = "act", ![s].p = get_post(D1, row.id)]
                ELSE EndRun(s)
    /\ UNCHANGED <<now, session, call, ret>>

\* The vote form of the post is drawn (p is pending and not the user's) and
\* it is the form submitted.
VoteStep(s) ==
    /\ runs[s].pc = "act"
    /\ runs[s].click.kind = "vote"
    /\ runs[s].click.post_id = runs[s].p.id
    /\ runs[s].p.status = "pending"
    /\ runs[s].p.user_id # SessionUser[s]
    /\ Commit(cast_vote(DB, runs[s].p.id, SessionUser[s], runs[s].click.arg, <<>>))
    /\ EndRun(s)
    /\ UNCHANGED <<now, session, call, ret>>

\* A final-decision button of the post (drawn for its poster) is pressed.
DecideStep(s) ==
    /\ runs[s].pc = "act"
    /\ runs[s].click.kind = "decide"
    /\ runs[s].click.post_id = runs[s].p.id
    /\ runs[s].p.user_id = SessionUser[s]
    /\ runs[s].click.arg = "skipped"
          => get_savings(savings, SessionUser[s]) + runs[s].p.price <= MaxSaved
    /\ Commit(decide_post(DB, runs[s].p.id, runs[s].click.arg))
    /\ EndRun(s)
    /\ UNCHANGED <<now, session, call, ret>>

\* The "Delete Post" button of the post (drawn for its poster) is pressed.
DeleteStep(s) ==
    /\ runs[s].pc = "act"
    /\ runs[s].click.kind = "delete"
    /\ runs[s].click.post_id = runs[s].p.id
    /\ runs[s].p.user_id = SessionUser[s]
    /\ Commit(delete_post(DB, runs[s].p.id, SessionUser[s]))
    /\ EndRun(s)
    /\ UNCHANGED <<now, session, call, ret>>

\* No widget of the post was used: the loop goes to the next row.
NextRow(s) ==
    /\ runs[s].pc = "act"
    /\ ~(/\ runs[s].click.kind = "vote"
          /\ runs[s].click.post_id = runs[s].p.id
          /\ runs[s].p.status = "pending"
          /\ runs[s].p.user_id # SessionUser[s])
    /\ ~(/\ runs[s].click.kind \in {"decide", "delete"}
          /\ runs[s].click.post_id = runs[s].p.id
          /\ runs[s].p.user_id = SessionUser[s])
    /\ IF runs[s].i < Len(runs[s].rows)
       THEN runs' = [runs EXCEPT ![s].pc = "close", ![s].i = runs[s].i + 1]
       ELSE EndRun(s)
    /\ UNCHANGED <<db, now, session, call, ret>>

ConcNext ==
    \/ \E s \in Sessions, click \in Clicks : StartRun(s, click)
    \/ \E s \in Sessions : CloseStep(s)
    \/ \E s \in Sessions : VoteStep(s)
    \/ \E s \in Sessions : DecideStep(s)
    \/ \E s \in Sessions : DeleteStep(s)
    \/ \E s \in Sessions : NextRow(s)
    \/ Tick

ConcSpec == ConcInit /\ [][ConcNext]_vars

(***************************************************************************)
(* The contracts of the database functions, on every state the interleaved *)
(* runs reach                                                              *)
(***************************************************************************)
\* The post post_id exists, is the user's and is pending.
Deletable(post_id, user_id) ==
    \E k \in 1..Len(posts) :
       posts[k].id = post_id /\ posts[k].user_id = user_id /\ posts[k].status = "pending"

\* D is the database without the post post_id, its votes and its notifications.
PostRemoved(D, post_id) ==
    /\ D.posts = SelectSeq(posts, LAMBDA q : q.id # post_id)
    /\ D.votes = SelectSeq(votes, LAMBDA v : v.post_id # post_id)
    /\ D.notifications = SelectSeq(notifications, LAMBDA n : n.post_id # post_id)
    /\ post_id \notin PostIds(D)
    /\ \A v \in Rows(D.votes) \cup Rows(D.notifications) : v.post_id # post_id
    /\ D.users = users /\ D.savings = savings /\ D.groups = groups
    /\ D.memberships = memberships /\ D.next_id = next_id

\* C12: delete_post succeeds exactly on an existing pending post of the user,
\* and then removes the post with all its votes and notifications; in every
\* other case it returns False and changes no table.
C12_DeletePostContract ==
    \A post_id \in 1..MaxPosts, user_id \in Users :
       /\ can_delete_post(DB, post_id, user_id) <=> Deletable(post_id, user_id)
       /\ Deletable(post_id, user_id) => PostRemoved(delete_post(DB, post_id, user_id), post_id)
       /\ ~Deletable(post_id, user_id) => delete_post(DB, post_id, user_id) = DB

\* The pending post of u1 has a vote and its notification; it cannot be
\* deleted by u2, and deleting it as u1 empties the three tables.
C12_Witness ==
    /\ Deletable(1, "u1") /\ ~Deletable(1, "u2")
    /\ \E v \in Rows(votes) : v.post_id = 1
    /\ \E n \in Rows(notifications) : n.post_id = 1
    /\ delete_post(DB, 1, "u1").posts = <<>>
    /\ delete_post(DB, 1, "u1").votes = <<>>
    /\ delete_post(DB, 1, "u2") = DB

\* The vote rows of the user on the post.
VotesOf(post_id, user_id) ==
    {k \in 1..Len(votes) : votes[k].post_id = post_id /\ votes[k].user_id = user_id}

OneRowEach == \A i \in 1..MaxPosts, u \in Users : Cardinality(VotesOf(i, u)) <= 1

CountsSum ==
    \A i \in 1..MaxPosts :
       vote_counts(DB, i)["buy"] + vote_counts(DB, i)["dont_buy"] + vote_counts(DB, i)["neutral"]
          = Cardinality({u \in Users : VotesOf(i, u) # {}})

\* C14: each (post, user) pair has at most one vote row; after a vote is
\* recorded that row holds the vote and the comment just given; the three
\* counts of vote_counts sum to the number of users who voted on the post.
C14_OneVoteRow ==
    [][/\ OneRowEach' /\ CountsSum'
       /\ \A i \in 1..MaxPosts, f \in VoteForms :
             (CastVote(i, f[1], f[2]) /\ now < get_post(DB, i).deadline)
                => \E k \in VotesOf(i, session.user)' :
                      votes'[k].vote = f[1] /\ votes'[k].comment = strip(f[2])]_vars

\* Both users have voted, each on the post of the other; one row holds
\* "dont_buy" with the comment "a".
C14_Witness ==
    /\ \E i, j \in 1..MaxPosts : VotesOf(i, "u1") # {} /\ VotesOf(j, "u2") # {}
    /\ \E v \in Rows(votes) : v.vote = "dont_buy" /\ v.comment = <<97>>
    /\ \E v \in Rows(votes) : v.vote = "neutral"
    /\ Len(votes) = 2

\* The posts of the group in the posts table.
GroupPosts(group_id) == {q.id : q \in {r \in Rows(posts) : r.group_id = group_id}}

\* No row of the database D refers to the group or to one of the posts pids.
NoRowRefers(D, group_id, pids) ==
    /\ ~GroupExists(D, group_id)
    /\ \A m \in D.memberships : m[2] # group_id
    /\ \A q \in Rows(D.posts) : q.group_id # group_id /\ q.id \notin pids
    /\ \A v \in Rows(D.votes) : v.post_id \notin pids
    /\ \A n \in Rows(D.notifications) : n.group_id # group_id /\ n.post_id \notin pids

\* C13: delete_group succeeds exactly for the owner of an existing group;
\* after it no group, membership, post, vote or notification row refers to
\* the group or to one of its posts, whatever came before; otherwise it
\* returns False and changes nothing.
C13_DeleteGroupContract ==
    \A group_id \in Groups, user_id \in Users :
       /\ can_delete_group(DB, group_id, user_id) <=> groups[group_id] = user_id
       /\ groups[group_id] = user_id
             => NoRowRefers(delete_group(DB, group_id, user_id), group_id, GroupPosts(group_id))
       /\ groups[group_id] # user_id => delete_group(DB, group_id, user_id) = DB

(***************************************************************************)
(* The poster suggestion of the post display.                              *)
(***************************************************************************)
\* C16: for every post in the posts table, the call of the post display,
\* check_purchase_history(post.user_id, post.item_name) at the default
\* threshold 0.6, returns Match: the poster's history holds the post's own
\* item name, also when the post is the poster's only one.
C16_DisplayMatches ==
    \A i \in PostIds(DB) : poster_suggestion(DB, get_post(DB, i)).verdict = "Match"

\* The only post of one user, with a blank item name, and the only post of
\* another, with a name, each matched with itself.
C16_Witness ==
    /\ Len(posts) = MaxPosts
    /\ posts[1].user_id # posts[2].user_id
    /\ posts[1].item_name = Str(<<>>)
    /\ posts[2].item_name = Str(<<97>>)
    /\ poster_suggestion(DB, posts[1]) = Match(Str(<<>>), Str(<<>>), 1)
    /\ poster_suggestion(DB, posts[2]) = Match(Str(<<97>>), Str(<<97>>), 1)

(***************************************************************************)
(* The life of a post under interleaved runs.                              *)
(***************************************************************************)
StatusRank == [pending |-> 0, closed |-> 1, decided |-> 2]

\* C17: the status of a post only moves forward, pending -> closed ->
\* decided: no step takes a stored post to an earlier status, and a decided
\* post stays decided, also when a run closes the post on a row it read
\* before the decision of another session was committed.
C17_StatusForward ==
    [][\A k \in 1..Len(posts), j \in 1..Len(posts') :
          posts'[j].id = posts[k].id
             => StatusRank[posts'[j].status] >= StatusRank[posts[k].status]]_vars
\* C18: a post credits its price to the total of its owner at most once: a
\* final decision on a post that is already recorded as skipped (by the
\* "I skipped it" button or by the skip at creation), and so has been
\* credited, adds nothing to any total.
C18_CreditedOnce ==
    [][\A i \in 1..MaxPosts, d \in {"bought", "skipped"} :
          (Decide(i, d) /\ get_post(DB, i).decision = "skipped") => TotalsUnchanged]_vars

============================================================================
